---- MODULE Spec2Model ----
(***************************************************************************)
(* Verification model of the TravelAgent multi-agent chat backend:         *)
(*   - app/llm/rate_limiter.py   sliding-window RateLimiter                *)
(*   - app/agents/orchestrator.py run_agent_pipeline / stream_agent_pipeline*)
(*   - app/llm/provider.py       _invoke_with_retry, stream_chat_response  *)
(*   - app/agents/flight_agent.py, assistant_agent.py  tool-call loops     *)
(*                                                                         *)
(* Time is time.monotonic() in whole seconds.  Coroutines run on one       *)
(* asyncio event loop: code between two awaits that really suspend is one  *)
(* atomic action.                                                          *)
(***************************************************************************)
EXTENDS Integers, Sequences, FiniteSets, TLC

VARIABLES
    now,              \* time.monotonic()
    user_buckets,     \* RateLimiter._user_buckets : key -> timestamps
    global_bucket,    \* RateLimiter._global_bucket.timestamps
    cleanup_counter,  \* RateLimiter._cleanup_counter
    recent,           \* ghost: per key, record_call times at most 60 s old
    global_recent,    \* ghost: all record_call times at most 60 s old
    calls_recorded,   \* ghost: per key, number of record_call's so far
    turns,            \* the turns (run_agent_pipeline / stream_agent_pipeline) in flight
    invoke,           \* one call of provider._invoke_with_retry
    agent,            \* one run of a sub-agent's tool-call loop
    stream,           \* one call of provider.stream_chat_response
    conv              \* one conversation: its persisted state and the turn in progress

vars == <<now, user_buckets, global_bucket, cleanup_counter,
          recent, global_recent, calls_recorded, turns, invoke, agent, stream,
          conv>>

limiter_vars == <<now, user_buckets, global_bucket, cleanup_counter,
                  recent, global_recent, calls_recorded>>

(***************************************************************************)
(* Bounds of the model                                                     *)
(***************************************************************************)
TickStep == 30      \* seconds the clock advances in one Tick
MaxTime == 90       \* the clock does not advance beyond this time
MaxTimeHour == 600  \* the same, in the long-horizon specification
MaxTimeGlobal == 60 \* the same, in the many-identities specification
MaxCalls == 8       \* no turn is begun once this many calls were recorded
MaxCallsGlobal == 31 \* the same, in the many-identities specification

(***************************************************************************)
(* rate_limiter.py: configuration                                          *)
(***************************************************************************)
MAX_REQUESTS_PER_MINUTE == 6
MAX_REQUESTS_PER_HOUR == 60
MAX_REQUESTS_PER_DAY == 500
GLOBAL_MAX_REQUESTS_PER_MINUTE == 30
COOLDOWN_SECONDS == 10
WINDOW_MINUTE == 60
WINDOW_HOUR == 3600
WINDOW_DAY == 86400
CLEANUP_EVERY == 100

None == "None"

\* user ids the callers pass: an authenticated user and no user at all
UserIds == {"u1", None}

_get_key(user_id) == IF user_id = None THEN "__anonymous__" ELSE user_id

Keys == {_get_key(u) : u \in UserIds}

Turns == {"t1", "t2"}

\* _UserBucket._prune: keep the timestamps newer than the cutoff
_prune(timestamps, window) ==
    SelectSeq(timestamps, LAMBDA t : t > now - window)

\* _UserBucket.count_in_window, as the pair (pruned list, count)
count_in_window(timestamps, window) == Len(_prune(timestamps, window))

\* RateLimitExceeded(message, retry_after) per tier
RateLimitExceeded(tier) ==
    [message |-> <<"rate_limit", tier>>,
     retry_after |-> CASE tier = "minute" -> COOLDOWN_SECONDS
                       [] tier = "hour" -> 60
                       [] tier = "day" -> 300
                       [] OTHER -> COOLDOWN_SECONDS]

\* UserSection with the limit compared by > instead of >=
UserSection_OffByOne(timestamps) ==
    LET b1 == _prune(timestamps, WINDOW_MINUTE)
    IN  IF Len(b1) > MAX_REQUESTS_PER_MINUTE THEN [tier |-> "minute", ts |-> b1]
        ELSE [tier |-> "ok", ts |-> b1]

\* The per-user critical section of check_rate_limit: every count_in_window
\* prunes the bucket in place, so each later count sees the earlier prune.
UserSection(timestamps) ==
    LET b1 == _prune(timestamps, WINDOW_MINUTE)
        b2 == _prune(b1, WINDOW_HOUR)
        b3 == _prune(b2, WINDOW_DAY)
    IN  IF Len(b1) >= MAX_REQUESTS_PER_MINUTE THEN [tier |-> "minute", ts |-> b1]
        ELSE IF Len(b2) >= MAX_REQUESTS_PER_HOUR THEN [tier |-> "hour", ts |-> b2]
        ELSE IF Len(b3) >= MAX_REQUESTS_PER_DAY THEN [tier |-> "day", ts |-> b3]
        ELSE [tier |-> "ok", ts |-> b3]

\* GlobalSection with the limit compared by > instead of >=
GlobalSection_OffByOne(timestamps) ==
    LET g == _prune(timestamps, WINDOW_MINUTE)
    IN  IF Len(g) > GLOBAL_MAX_REQUESTS_PER_MINUTE
        THEN [tier |-> "global", ts |-> g]
        ELSE [tier |-> "ok", ts |-> g]

\* The global critical section of check_rate_limit
GlobalSection(timestamps) ==
    LET g == _prune(timestamps, WINDOW_MINUTE)
    IN  IF Len(g) >= GLOBAL_MAX_REQUESTS_PER_MINUTE
        THEN [tier |-> "global", ts |-> g]
        ELSE [tier |-> "ok", ts |-> g]

\* check_rate_limit(user_id): the tier that rejects ("ok" if none) and the
\* buckets it leaves behind.  The global section runs only if the user
\* section did not raise.
check_rate_limit(user_id) ==
    LET key == _get_key(user_id)
        us == UserSection(user_buckets[key])
        gs == GlobalSection(global_bucket)
    IN  IF us.tier # "ok"
        THEN [tier |-> us.tier,
              user_buckets |-> [user_buckets EXCEPT ![key] = us.ts],
              global_bucket |-> global_bucket]
        ELSE [tier |-> gs.tier,
              user_buckets |-> [user_buckets EXCEPT ![key] = us.ts],
              global_bucket |-> gs.ts]

\* _cleanup_stale_buckets: count_in_window(WINDOW_DAY) prunes every bucket;
\* a bucket left empty is deleted (the defaultdict recreates it empty).
_cleanup_stale_buckets(buckets) ==
    [k \in DOMAIN buckets |-> _prune(buckets[k], WINDOW_DAY)]

\* record_call(user_id): the new limiter state
record_call(user_id) ==
    LET key == _get_key(user_id)
        appended == [user_buckets EXCEPT ![key] = Append(@, now)]
    IN  [user_buckets |-> IF cleanup_counter + 1 >= CLEANUP_EVERY
                          THEN _cleanup_stale_buckets(appended)
                          ELSE appended,
         global_bucket |-> Append(global_bucket, now),
         cleanup_counter |-> IF cleanup_counter + 1 >= CLEANUP_EVERY
                             THEN 0 ELSE cleanup_counter + 1]

(***************************************************************************)
(* orchestrator.py: one turn of run_agent_pipeline / stream_agent_pipeline *)
(***************************************************************************)
Modes == {"batch", "stream"}

\* router_agent.py: intent -> agent mapping
FLIGHT_INTENTS == {"flight_search", "book_flight", "cancel_booking"}
ASSISTANT_INTENTS == {"view_booking", "view_passengers", "view_preferences",
                      "view_calendar", "add_to_calendar", "send_email"}

\* intents the classification stub answers with in the pipeline model: one
\* per delegation branch of route_message, and one outside the enumeration
PipelineIntents == {"flight_search", "add_to_calendar", "greeting",
                    "general_question", "small_talk"}

\* conversation state as chat_service hands it over (dict(conversation.state))
EmptyState == [current_intent |-> None, pending_slots |-> None]
InitialStates == {EmptyState,
                  [current_intent |-> "flight_search",
                   pending_slots |-> <<"depart_date">>]}

IdleTurn ==
    [pc |-> "idle", user_id |-> None, mode |-> "batch",
     check |-> "none",
     built |-> FALSE, model_called |-> FALSE, model_ok |-> FALSE,
     tool_called |-> FALSE, recorded |-> FALSE,
     response_text |-> None, intent |-> None,
     state0 |-> EmptyState, state |-> EmptyState, events |-> <<>>]

\* ghost bookkeeping of a record_call at the current time
GhostRecord(user_id) ==
    /\ recent' = [recent EXCEPT ![_get_key(user_id)] = Append(@, now)]
    /\ global_recent' = Append(global_recent, now)
    /\ calls_recorded' = [calls_recorded EXCEPT ![_get_key(user_id)] = @ + 1]

\* the limiter after llm_rate_limiter.record_call(user_id)
DoRecordCall(user_id) ==
    LET r == record_call(user_id)
    IN  /\ user_buckets' = r.user_buckets
        /\ global_bucket' = r.global_bucket
        /\ cleanup_counter' = r.cleanup_counter
        /\ GhostRecord(user_id)

\* how a turn ends: the batch entry point returns (text, state, intent); the
\* streamed one yields its last events and returns
ReturnTriple(tr, text, state, intent) ==
    [tr EXCEPT !.pc = "done", !.response_text = text,
               !.state = state, !.intent = intent]

YieldError(tr, content) ==
    [tr EXCEPT !.pc = "done",
               !.events = Append(@, [type |-> "error", content |-> content])]

\* stream_agent_pipeline after route_message returned: token chunks, then done
YieldDone(tr, text, state, intent) ==
    [tr EXCEPT !.pc = "done", !.response_text = text,
               !.state = state, !.intent = intent,
               !.events = @ \o <<[type |-> "token", content |-> text],
                                 [type |-> "done", state |-> state,
                                  intent |-> intent, full_content |-> text]>>]

\* route_message returned normally: record_call, then return / yield
RouteReturned(t, tr, text, state, intent) ==
    /\ DoRecordCall(tr.user_id)
    /\ turns' = [turns EXCEPT ![t] =
          IF tr.mode = "batch"
          THEN ReturnTriple([tr EXCEPT !.recorded = TRUE], text, state, intent)
          ELSE YieldDone([tr EXCEPT !.recorded = TRUE], text, state, intent)]

\* RouteRaised without the except clause: the exception leaves the pipeline,
\* which returns no triple and yields no event
RouteRaised_Escapes(t, tr) ==
    /\ turns' = [turns EXCEPT ![t] = [tr EXCEPT !.pc = "done"]]
    /\ UNCHANGED <<user_buckets, global_bucket, cleanup_counter,
                   recent, global_recent, calls_recorded>>

\* route_message raised: the except clause of the pipeline.  state is the
\* dict route_message was mutating.
RouteRaised(t, tr) ==
    /\ turns' = [turns EXCEPT ![t] =
          IF tr.mode = "batch"
          THEN ReturnTriple(tr, "pipeline_error", tr.state, None)
          ELSE YieldError(tr, "pipeline_error")]
    /\ UNCHANGED <<user_buckets, global_bucket, cleanup_counter,
                   recent, global_recent, calls_recorded>>

\* BeginTurn that logs the rejection and carries on to build the models
BeginTurn_IgnoresRejection(t, user_id, mode, state0) ==
    LET chk == check_rate_limit(user_id)
    IN  /\ turns[t].pc = "idle"
        /\ user_buckets' = chk.user_buckets
        /\ global_bucket' = chk.global_bucket
        /\ turns' = [turns EXCEPT ![t] =
              [IdleTurn EXCEPT !.user_id = user_id, !.mode = mode,
                  !.state0 = state0, !.state = state0,
                  !.check = chk.tier, !.pc = "build"]]
        /\ UNCHANGED <<now, cleanup_counter, recent, global_recent, calls_recorded,
                       invoke, agent, stream, conv>>

\* Rate limit check, the first statement of both entry points
BeginTurn(t, user_id, mode, state0) ==
    LET chk == check_rate_limit(user_id)
        tr == [IdleTurn EXCEPT !.user_id = user_id, !.mode = mode,
                  !.state0 = state0, !.state = state0,
                  !.check = chk.tier]
        exc == RateLimitExceeded(chk.tier)
    IN  /\ turns[t].pc = "idle"
        /\ user_buckets' = chk.user_buckets
        /\ global_bucket' = chk.global_bucket
        /\ turns' = [turns EXCEPT ![t] =
              IF chk.tier = "ok" THEN [tr EXCEPT !.pc = "build"]
              ELSE IF mode = "batch"
                   THEN ReturnTriple(tr, exc.message, tr.state, None)
                   ELSE YieldError(tr, exc.message)]
        /\ UNCHANGED <<now, cleanup_counter, recent, global_recent, calls_recorded,
                       invoke, agent, stream, conv>>

\* variant: a coroutine can be suspended inside a critical section (an await
\* in its body, or a second thread), so any other turn may step
Scheduled_Preemptive(t) == TRUE

\* The event loop runs one coroutine at a time and leaves it only at an await
\* that suspends.  Acquiring a free asyncio.Lock does not suspend and the
\* bodies of the two `async with` blocks of check_rate_limit have no await,
\* so a check that has started is the running coroutine until it returns or
\* raises: turn t can step only if no other turn is inside its check.
Scheduled(t) ==
    \A t2 \in Turns \ {t} :
        turns[t2].pc \notin {"user_cs", "global_acquire", "global_cs"}

\* bucket.lock / self._global_bucket.lock is held by a turn other than t
UserLockHeld(t, key) ==
    \E t2 \in Turns \ {t} :
        turns[t2].pc = "user_cs" /\ _get_key(turns[t2].user_id) = key

GlobalLockHeld(t) == \E t2 \in Turns \ {t} : turns[t2].pc = "global_cs"

\* check_rate_limit, step by step.  `async with bucket.lock:` is entered as
\* soon as the lock is free.
AcquireUserLock(t, user_id, mode, state0) ==
    /\ turns[t].pc = "idle"
    /\ ~UserLockHeld(t, _get_key(user_id))
    /\ turns' = [turns EXCEPT ![t] =
          [IdleTurn EXCEPT !.user_id = user_id, !.mode = mode,
              !.state0 = state0, !.state = state0, !.pc = "user_cs"]]
    /\ UNCHANGED <<now, user_buckets, global_bucket, cleanup_counter, recent,
                   global_recent, calls_recorded, invoke, agent, stream, conv>>

\* the body of `async with bucket.lock:`, the lock released at its end (also
\* by the exception); the turn then stands before the global lock
UserCriticalSection(t) ==
    LET tr == turns[t]
        key == _get_key(tr.user_id)
        us == UserSection(user_buckets[key])
        exc == RateLimitExceeded(us.tier)
    IN  /\ tr.pc = "user_cs"
        /\ user_buckets' = [user_buckets EXCEPT ![key] = us.ts]
        /\ turns' = [turns EXCEPT ![t] =
              IF us.tier = "ok" THEN [tr EXCEPT !.pc = "global_acquire"]
              ELSE IF tr.mode = "batch"
                   THEN ReturnTriple([tr EXCEPT !.check = us.tier],
                                     exc.message, tr.state, None)
                   ELSE YieldError([tr EXCEPT !.check = us.tier], exc.message)]
        /\ UNCHANGED <<now, global_bucket, cleanup_counter, recent,
                       global_recent, calls_recorded, invoke, agent, stream, conv>>

\* `async with self._global_bucket.lock:` is entered
AcquireGlobalLock(t) ==
    /\ turns[t].pc = "global_acquire"
    /\ ~GlobalLockHeld(t)
    /\ turns' = [turns EXCEPT ![t].pc = "global_cs"]
    /\ UNCHANGED <<now, user_buckets, global_bucket, cleanup_counter, recent,
                   global_recent, calls_recorded, invoke, agent, stream, conv>>

\* the body of `async with self._global_bucket.lock:`; check_rate_limit
\* returns or raises
GlobalCriticalSection(t) ==
    LET tr == turns[t]
        gs == GlobalSection(global_bucket)
        exc == RateLimitExceeded(gs.tier)
    IN  /\ tr.pc = "global_cs"
        /\ global_bucket' = gs.ts
        /\ turns' = [turns EXCEPT ![t] =
              IF gs.tier = "ok" THEN [tr EXCEPT !.pc = "build", !.check = "ok"]
              ELSE IF tr.mode = "batch"
                   THEN ReturnTriple([tr EXCEPT !.check = gs.tier],
                                     exc.message, tr.state, None)
                   ELSE YieldError([tr EXCEPT !.check = gs.tier], exc.message)]
        /\ UNCHANGED <<now, user_buckets, cleanup_counter, recent,
                       global_recent, calls_recorded, invoke, agent, stream, conv>>

\* _build_agent_llms: _resolve_config and three build_llm calls, or an error
BuildAgentLLMs(t) ==
    /\ turns[t].pc = "build"
    /\ \E ok \in BOOLEAN :
          turns' = [turns EXCEPT ![t] =
              IF ok THEN [@ EXCEPT !.pc = "detect", !.built = TRUE]
              ELSE IF @.mode = "batch"
                   THEN ReturnTriple(@, "build_error", @.state, None)
                   ELSE YieldError(@, "build_error")]
    /\ UNCHANGED <<now, user_buckets, global_bucket, cleanup_counter,
                   recent, global_recent, calls_recorded, invoke, agent, stream, conv>>

\* what the classification call of _detect_intent can come back with
DetectOutcomes ==
    [kind : {"json"}, intent : PipelineIntents,
     missing : BOOLEAN, follow_up : BOOLEAN]
    \cup [kind : {"garbage", "model_error", "not_an_object"},
          intent : {"general_question"}, missing : {FALSE}, follow_up : {FALSE}]

\* route_message, steps 1 and 2: _detect_intent, state update, follow-up
DetectIntent(t) ==
    /\ turns[t].pc = "detect"
    /\ \E d \in DetectOutcomes :
          LET tr == [turns[t] EXCEPT !.model_called = TRUE,
                        !.model_ok = (d.kind # "model_error")]
              st1 == [tr.state EXCEPT !.current_intent = d.intent]
              st2 == [st1 EXCEPT !.pending_slots = <<"missing">>]
          IN  IF d.kind = "not_an_object"
              THEN RouteRaised(t, tr)   \* intent_result.get on a non-dict
              ELSE IF d.missing /\ d.follow_up
              THEN RouteReturned(t, tr, "follow_up", st2, d.intent)
              ELSE /\ turns' = [turns EXCEPT ![t] =
                         [tr EXCEPT !.pc = "delegate", !.state = st1,
                                    !.intent = d.intent]]
                   /\ UNCHANGED <<user_buckets, global_bucket, cleanup_counter,
                                  recent, global_recent, calls_recorded>>
    /\ UNCHANGED <<now, invoke, agent, stream, conv>>

\* what a sub-agent's tool-call loop can end with, as seen by route_message:
\* a final text, the error text of a failed model invocation (in the first
\* iteration, or after iterations that ran tools), the capped-loop message,
\* or an exception from bind_tools
AgentOutcomes ==
    {[kind |-> "final", model_ok |-> TRUE, tool_called |-> FALSE],
     [kind |-> "final", model_ok |-> TRUE, tool_called |-> TRUE],
     [kind |-> "llm_error", model_ok |-> FALSE, tool_called |-> FALSE],
     [kind |-> "llm_error", model_ok |-> TRUE, tool_called |-> TRUE],
     [kind |-> "capped", model_ok |-> TRUE, tool_called |-> TRUE],
     [kind |-> "raise", model_ok |-> FALSE, tool_called |-> FALSE]}

\* _handle_greeting: the model's text, or the canned greeting on any error
GreetingOutcomes ==
    {[kind |-> "greeting", model_ok |-> TRUE, tool_called |-> FALSE],
     [kind |-> "canned_greeting", model_ok |-> FALSE, tool_called |-> FALSE]}

\* route_message, step 3: delegate by intent, then return
Delegate(t) ==
    /\ turns[t].pc = "delegate"
    /\ LET intent == turns[t].intent
           outcomes == IF intent \in FLIGHT_INTENTS \cup ASSISTANT_INTENTS
                          \/ intent = "general_question"
                       THEN AgentOutcomes ELSE GreetingOutcomes
       IN  \E o \in outcomes :
              LET tr == [turns[t] EXCEPT !.model_ok = @ \/ o.model_ok,
                            !.tool_called = o.tool_called]
              IN  IF o.kind = "raise"
                  THEN RouteRaised(t, tr)
                  ELSE RouteReturned(t, tr, o.kind, tr.state, intent)
    /\ UNCHANGED <<now, invoke, agent, stream, conv>>

\* the caller (chat_service) is done with the turn's result
FinishTurn(t) ==
    /\ turns[t].pc = "done"
    /\ turns' = [turns EXCEPT ![t] = IdleTurn]
    /\ UNCHANGED <<now, user_buckets, global_bucket, cleanup_counter,
                   recent, global_recent, calls_recorded, invoke, agent, stream, conv>>

\* a whole turn of an identity that is not tracked here and is under its own
\* limits: its check passes the user section, and if it passes the global one
\* the call is recorded in the global bucket
OtherIdentityTurn ==
    LET gs == GlobalSection(global_bucket)
    IN  /\ gs.tier = "ok"
        /\ global_bucket' = Append(gs.ts, now)
        /\ global_recent' = Append(global_recent, now)
        /\ cleanup_counter' = IF cleanup_counter + 1 >= CLEANUP_EVERY
                              THEN 0 ELSE cleanup_counter + 1
        /\ user_buckets' = IF cleanup_counter + 1 >= CLEANUP_EVERY
                           THEN _cleanup_stale_buckets(user_buckets)
                           ELSE user_buckets
        /\ UNCHANGED <<now, recent, calls_recorded, turns, invoke, agent, stream, conv>>

\* the monotonic clock advances
Tick(step, limit) ==
    /\ now + step <= limit
    /\ now' = now + step
    /\ recent' = [k \in Keys |->
                    SelectSeq(recent[k], LAMBDA ts : ts >= now' - WINDOW_MINUTE)]
    /\ global_recent' = SelectSeq(global_recent,
                                  LAMBDA ts : ts >= now' - WINDOW_MINUTE)
    /\ UNCHANGED <<user_buckets, global_bucket, cleanup_counter,
                   calls_recorded, turns, invoke, agent, stream, conv>>

(***************************************************************************)
(* provider.py: retry configuration and error classification.  Strings     *)
(* that the code searches are sequences of characters.                     *)
(***************************************************************************)
MAX_RETRIES == 2
INITIAL_BACKOFF_S == 1
BACKOFF_MULTIPLIER == 2

UpperCase == <<"A", "B", "C", "D", "E", "F", "G", "H", "I", "J", "K", "L", "M", "N", "O", "P", "Q", "R", "S", "T", "U", "V", "W", "X", "Y", "Z">>
LowerCase == <<"a", "b", "c", "d", "e", "f", "g", "h", "i", "j", "k", "l", "m", "n", "o", "p", "q", "r", "s", "t", "u", "v", "w", "x", "y", "z">>

\* str.lower()
lower(str) ==
    [i \in 1..Len(str) |->
        IF \E j \in 1..Len(UpperCase) : UpperCase[j] = str[i]
        THEN LowerCase[CHOOSE j \in 1..Len(UpperCase) : UpperCase[j] = str[i]]
        ELSE str[i]]

\* Python's "needle in haystack" on strings
contains(haystack, needle) ==
    \E i \in 0..(Len(haystack) - Len(needle)) :
        SubSeq(haystack, i + 1, i + Len(needle)) = needle

\* str.strip() leaves nothing
is_blank(str) == \A i \in 1..Len(str) : str[i] = " "

\* provider._RETRYABLE_KEYWORDS, as written in the source
_RETRYABLE_KEYWORDS ==
    {<<"r", "a", "t", "e", " ", "l", "i", "m", "i", "t">>,
     <<"r", "a", "t", "e", "_", "l", "i", "m", "i", "t">>,
     <<"4", "2", "9">>,
     <<"q", "u", "o", "t", "a">>,
     <<"r", "e", "s", "o", "u", "r", "c", "e", " ", "e", "x", "h", "a", "u", "s", "t", "e", "d">>,
     <<"r", "e", "s", "o", "u", "r", "c", "e", "e", "x", "h", "a", "u", "s", "t", "e", "d">>,
     <<"5", "0", "3">>,
     <<"s", "e", "r", "v", "i", "c", "e", " ", "u", "n", "a", "v", "a", "i", "l", "a", "b", "l", "e">>,
     <<"t", "e", "m", "p", "o", "r", "a", "r", "i", "l", "y", " ", "u", "n", "a", "v", "a", "i", "l", "a", "b", "l", "e">>,
     <<"t", "i", "m", "e", "o", "u", "t">>,
     <<"t", "i", "m", "e", "d", " ", "o", "u", "t">>,
     <<"c", "o", "n", "n", "e", "c", "t", "i", "o", "n">>,
     <<"D", "E", "A", "D", "L", "I", "N", "E", "_", "E", "X", "C", "E", "E", "D", "E", "D">>}

\* variant: every error is retried
_is_retryable_Always(exc) == TRUE

\* provider._is_retryable: the keywords are searched in the lowered message
_is_retryable(exc) ==
    \E kw \in _RETRYABLE_KEYWORDS : contains(lower(exc.msg), kw)

\* assistant_agent._RETRYABLE_KEYWORDS
ASSISTANT_RETRYABLE_KEYWORDS ==
    {<<"r", "a", "t", "e", " ", "l", "i", "m", "i", "t">>,
     <<"4", "2", "9">>,
     <<"q", "u", "o", "t", "a">>,
     <<"r", "e", "s", "o", "u", "r", "c", "e", " ", "e", "x", "h", "a", "u", "s", "t", "e", "d">>,
     <<"5", "0", "3">>,
     <<"t", "i", "m", "e", "o", "u", "t">>,
     <<"t", "i", "m", "e", "d", " ", "o", "u", "t">>,
     <<"d", "e", "a", "d", "l", "i", "n", "e", "_", "e", "x", "c", "e", "e", "d", "e", "d">>,
     <<"i", "n", "t", "e", "r", "n", "a", "l">>,
     <<"u", "n", "a", "v", "a", "i", "l", "a", "b", "l", "e">>,
     <<"c", "o", "n", "n", "e", "c", "t", "i", "o", "n">>}

\* assistant_agent._is_retryable: message plus exception type name, lowered,
\* or an empty message
assistant_is_retryable(exc) ==
    \/ \E kw \in ASSISTANT_RETRYABLE_KEYWORDS :
          contains(lower(exc.msg \o exc.type), kw)
    \/ is_blank(exc.msg)

\* exceptions the model stub raises
Exceptions ==
    {[type |-> <<"R", "e", "s", "o", "u", "r", "c", "e", "E", "x", "h", "a", "u", "s", "t", "e", "d">>, msg |-> <<"4", "2", "9", " ", "Q", "u", "o", "t", "a">>],
     [type |-> <<"T", "i", "m", "e", "o", "u", "t", "E", "r", "r", "o", "r">>, msg |-> <<"R", "e", "a", "d", " ", "t", "i", "m", "e", "d", " ", "o", "u", "t">>],
     [type |-> <<"A", "P", "I", "C", "o", "n", "n", "e", "c", "t", "i", "o", "n", "E", "r", "r", "o", "r">>, msg |-> <<"C", "o", "n", "n", "e", "c", "t", "i", "o", "n", " ", "r", "e", "s", "e", "t">>],
     [type |-> <<"D", "e", "a", "d", "l", "i", "n", "e", "E", "x", "c", "e", "e", "d", "e", "d">>, msg |-> <<"D", "E", "A", "D", "L", "I", "N", "E", "_", "E", "X", "C", "E", "E", "D", "E", "D">>],
     [type |-> <<"A", "u", "t", "h", "e", "n", "t", "i", "c", "a", "t", "i", "o", "n", "E", "r", "r", "o", "r">>, msg |-> <<"I", "n", "v", "a", "l", "i", "d", " ", "A", "P", "I", " ", "k", "e", "y">>],
     [type |-> <<"I", "n", "t", "e", "r", "n", "a", "l", "S", "e", "r", "v", "e", "r", "E", "r", "r", "o", "r">>, msg |-> <<"5", "0", "0", " ", "I", "n", "t", "e", "r", "n", "a", "l">>],
     [type |-> <<"C", "a", "n", "c", "e", "l", "l", "e", "d", "E", "r", "r", "o", "r">>, msg |-> <<>>]}

\* an error whose message names one of the retryable keywords of provider.py,
\* in whatever letter case
TransientKeywordError(exc) ==
    \E kw \in _RETRYABLE_KEYWORDS : contains(lower(exc.msg), lower(kw))

(***************************************************************************)
(* provider.py: _invoke_with_retry                                         *)
(***************************************************************************)
ScriptLen == 3   \* attempts the model stub has an answer for

\* no exception: the call responded (also the initial last_exc = None)
NoException == [type |-> <<>>, msg |-> <<>>]

\* what llm.ainvoke does on one attempt: respond, or raise
StubOutcomes == {NoException} \cup Exceptions

Scripts == [1..ScriptLen -> StubOutcomes]

\* response.content of the stub's k-th call
Content(k) == <<"content", k>>

IdleInvoke ==
    [pc |-> "idle", script |-> <<>>, max_retries |-> MAX_RETRIES,
     attempt |-> 0, backoff |-> INITIAL_BACKOFF_S, last_exc |-> NoException,
     calls |-> 0, sleeps |-> <<>>, result |-> <<>>, raised |-> NoException]

\* _invoke_with_retry(llm, messages, max_retries=...) is called
StartInvoke(script, max_retries) ==
    /\ invoke.pc = "idle"
    /\ invoke' = [IdleInvoke EXCEPT !.pc = "attempt", !.script = script,
                                    !.max_retries = max_retries]
    /\ UNCHANGED <<limiter_vars, turns, agent, stream, conv>>

\* one pass of the for loop up to its return, sleep or break
InvokeAttempt ==
    /\ invoke.pc = "attempt"
    /\ LET k == invoke.calls + 1
           o == invoke.script[k]
       IN  invoke' =
             IF o = NoException
             THEN [invoke EXCEPT !.pc = "returned", !.calls = k,
                                 !.result = Content(k)]
             ELSE IF invoke.attempt < invoke.max_retries /\ _is_retryable(o)
             THEN [invoke EXCEPT !.pc = "sleep", !.calls = k, !.last_exc = o]
             ELSE [invoke EXCEPT !.pc = "raised", !.calls = k, !.last_exc = o,
                                 !.raised = o]
    /\ UNCHANGED <<limiter_vars, turns, agent, stream, conv>>

\* await asyncio.sleep(backoff); backoff *= BACKOFF_MULTIPLIER; the sleep is
\* taken only when attempt < max_retries, so the loop has a next attempt
InvokeSleep ==
    /\ invoke.pc = "sleep"
    /\ invoke' = [invoke EXCEPT !.pc = "attempt", !.attempt = @ + 1,
                                !.sleeps = Append(@, invoke.backoff),
                                !.backoff = @ * BACKOFF_MULTIPLIER]
    /\ UNCHANGED <<limiter_vars, turns, agent, stream, conv>>

(***************************************************************************)
(* flight_agent.py / assistant_agent.py: the tool-call loops               *)
(***************************************************************************)
max_iterations == 5
_MAX_LLM_RETRIES == 2
_RETRY_BACKOFF_S == 2

AgentNames == {"flight", "assistant"}

MaxToolCalls == 2   \* tool calls in one model response at most

\* tools.py: the names of the tools bound to each agent
FLIGHT_TOOLS ==
    {"search_flights", "get_offer_by_flight_number", "create_booking",
     "cancel_booking", "get_passengers", "get_user_preferences"}

ASSISTANT_TOOLS ==
    {"get_passengers", "get_bookings", "get_user_preferences",
     "get_calendar_events", "add_booking_to_calendar", "send_flight_info_email"}

Catalog(name) == IF name = "flight" THEN FLIGHT_TOOLS ELSE ASSISTANT_TOOLS

\* tool names the model asks for: in one catalog only, in both, in neither
RequestedTools == {"search_flights", "get_bookings", "get_passengers", "book_hotel"}

\* tool_call["id"] values of a response
CallIds == {"call_1", "call_2"}

\* response.tool_calls: a non-empty list of calls with distinct ids
ToolCallLists ==
    {calls \in UNION {[1..n -> [id : CallIds, name : RequestedTools]] :
                         n \in 1..MaxToolCalls} :
        \A i, j \in DOMAIN calls : calls[i].id = calls[j].id => i = j}

\* variant: a failed lookup is reported like a tool that raised
ToolResult_NoLookup(catalog, call, raises) ==
    IF call.name \notin catalog \/ raises THEN <<"Error", call.name>>
    ELSE <<"result", call.name>>

\* the text appended for one tool call: the catalog lookup fails, the tool
\* raises, or the tool returns
ToolResult(catalog, call, raises) ==
    IF call.name \notin catalog THEN <<"Tool not found", call.name>>
    ELSE IF raises THEN <<"Error", call.name>>
    ELSE <<"result", call.name>>

\* ToolMessage(content=str(tool_result), tool_call_id=tool_call["id"])
ToolMessage(content, tool_call_id) ==
    [content |-> content, tool_call_id |-> tool_call_id]

RECURSIVE Pow2(_)
Pow2(n) == IF n = 0 THEN 1 ELSE 2 * Pow2(n - 1)

\* entries of the message list: messages.append(response) and
\* messages.append(ToolMessage(...))
AIEntry(tool_calls) ==
    [role |-> "ai", tool_calls |-> tool_calls, content |-> <<>>,
     tool_call_id |-> "none"]

ToolEntry(message) ==
    [role |-> "tool", tool_calls |-> <<>>, content |-> message.content,
     tool_call_id |-> message.tool_call_id]

\* messages is what the loop appended to its message list (after the system
\* prompt, the history and the task); it is kept in the state only in a run
\* that keeps it, since the loop itself never reads it.  raised tells which
\* tools of the last round raised.
IdleAgent ==
    [pc |-> "idle", name |-> "flight", iteration |-> 0, attempt |-> 0,
     sleeps |-> <<>>, responses |-> 0, tool_rounds |-> 0,
     last_exc |-> NoException, result |-> "none",
     tool_calls |-> <<>>, tool_messages |-> <<>>, invoked |-> <<>>,
     keeps |-> FALSE, messages |-> <<>>, raised |-> <<>>]

\* run_flight_agent / run_assistant_agent is called
StartAgent(name) ==
    /\ agent.pc = "idle"
    /\ agent' = [IdleAgent EXCEPT !.pc = "invoke", !.name = name]
    /\ UNCHANGED <<limiter_vars, turns, invoke, stream, conv>>

\* the same call, in a run whose message list is kept in the state
StartAgentKeeping(name) ==
    /\ agent.pc = "idle"
    /\ agent' = [IdleAgent EXCEPT !.pc = "invoke", !.name = name,
                                  !.keeps = TRUE]
    /\ UNCHANGED <<limiter_vars, turns, invoke, stream, conv>>

\* the agent returns text
AgentReturn(a, result) == [a EXCEPT !.pc = "returned", !.result = result]

\* a model response arrived: tool requests go to the tool round, text ends
\* the loop
AgentResponse(a, tool_calls) ==
    IF tool_calls # <<>>
    THEN [a EXCEPT !.pc = "tools", !.responses = @ + 1,
                   !.tool_calls = tool_calls,
                   !.messages = IF a.keeps THEN Append(@, AIEntry(tool_calls))
                                ELSE @]
    ELSE AgentReturn([a EXCEPT !.responses = @ + 1], "final")

\* tool requests of the runs whose message list is kept: one call, or an
\* unknown tool followed by a known one
ProtocolCalls ==
    {<<[id |-> "call_1", name |-> "get_passengers"]>>,
     <<[id |-> "call_2", name |-> "book_hotel"],
       [id |-> "call_1", name |-> "get_passengers"]>>}

\* variant: the except clause logs the error and goes on to the next
\* iteration
FlightInvoke_GoesOn ==
    /\ agent.pc = "invoke" /\ agent.name = "flight"
    /\ \/ \E tool_calls \in ToolCallLists \cup {<<>>} :
             agent' = AgentResponse(agent, tool_calls)
       \/ \E exc \in Exceptions :
             agent' = IF agent.iteration + 1 < max_iterations
                      THEN [agent EXCEPT !.last_exc = exc, !.iteration = @ + 1]
                      ELSE AgentReturn([agent EXCEPT !.last_exc = exc], "capped")
    /\ UNCHANGED <<limiter_vars, turns, invoke, stream, conv>>

\* run_flight_agent: one ainvoke in the loop; any exception ends the loop
FlightInvoke ==
    /\ agent.pc = "invoke" /\ agent.name = "flight"
    /\ \/ \E tool_calls \in ToolCallLists \cup {<<>>} :
             agent' = AgentResponse(agent, tool_calls)
       \/ \E exc \in Exceptions :
             agent' = AgentReturn([agent EXCEPT !.last_exc = exc], "llm_error")
    /\ UNCHANGED <<limiter_vars, turns, invoke, stream, conv>>

\* run_assistant_agent: one ainvoke of the inner retry loop
AssistantInvoke ==
    /\ agent.pc = "invoke" /\ agent.name = "assistant"
    /\ \/ \E tool_calls \in ToolCallLists \cup {<<>>} :
             agent' = AgentResponse(agent, tool_calls)
       \/ \E exc \in Exceptions :
             agent' = IF agent.attempt < _MAX_LLM_RETRIES
                         /\ assistant_is_retryable(exc)
                      THEN [agent EXCEPT !.pc = "sleep", !.last_exc = exc]
                      ELSE AgentReturn([agent EXCEPT !.last_exc = exc], "llm_error")
    /\ UNCHANGED <<limiter_vars, turns, invoke, stream, conv>>

\* variant: the retry is not counted, as in a `while True` retry loop
AssistantSleep_NotCounted ==
    /\ agent.pc = "sleep"
    /\ agent' = [agent EXCEPT !.pc = "invoke"]
    /\ UNCHANGED <<limiter_vars, turns, invoke, stream, conv>>

\* run_assistant_agent: await asyncio.sleep(_RETRY_BACKOFF_S * 2 ** attempt)
AssistantSleep ==
    /\ agent.pc = "sleep"
    /\ agent' = [agent EXCEPT !.pc = "invoke", !.attempt = @ + 1,
                    !.sleeps = Append(@, _RETRY_BACKOFF_S * Pow2(agent.attempt))]
    /\ UNCHANGED <<limiter_vars, turns, invoke, stream, conv>>

\* variant: a tool that raises ends the for loop over response.tool_calls
ToolRound_StopsAtRaise(a, raises) ==
    LET calls == a.tool_calls
        catalog == Catalog(a.name)
        stop == IF \E i \in DOMAIN calls : raises[i]
                THEN CHOOSE i \in DOMAIN calls :
                        raises[i] /\ \A j \in 1..(i - 1) : ~raises[j]
                ELSE Len(calls)
        run == SubSeq(calls, 1, stop)
        results == [i \in DOMAIN run |->
                      ToolMessage(ToolResult(catalog, run[i], raises[i]),
                                  run[i].id)]
    IN  [a EXCEPT
           !.iteration = @ + 1, !.tool_rounds = @ + 1,
           !.tool_messages = results,
           !.invoked = SelectSeq([i \in DOMAIN run |-> run[i].name],
                                 LAMBDA n : n \in catalog),
           !.messages = IF a.keeps
                        THEN @ \o [i \in DOMAIN run |-> ToolEntry(results[i])]
                        ELSE @,
           !.raised = IF a.keeps THEN raises ELSE @]

\* the for loop over response.tool_calls: each call is looked up in the
\* catalog, run if found, and answered by a ToolMessage
ToolRound(a, raises) ==
    LET calls == a.tool_calls
        catalog == Catalog(a.name)
        results == [i \in DOMAIN calls |->
                      ToolMessage(ToolResult(catalog, calls[i], raises[i]),
                                  calls[i].id)]
    IN  [a EXCEPT
           !.iteration = @ + 1, !.tool_rounds = @ + 1,
           !.tool_messages = results,
           !.invoked = SelectSeq([i \in DOMAIN calls |-> calls[i].name],
                                 LAMBDA n : n \in catalog),
           !.messages = IF a.keeps
                        THEN @ \o [i \in DOMAIN calls |-> ToolEntry(results[i])]
                        ELSE @,
           !.raised = IF a.keeps THEN raises ELSE @]

\* variant: the loop runs while iteration <= max_iterations
AgentTools_OneMore ==
    /\ agent.pc = "tools"
    /\ \E raises \in [DOMAIN agent.tool_calls -> BOOLEAN] :
          agent' = IF agent.iteration + 1 <= max_iterations
                   THEN [ToolRound(agent, raises) EXCEPT
                           !.pc = "invoke", !.attempt = 0, !.sleeps = <<>>]
                   ELSE AgentReturn(ToolRound(agent, raises), "capped")
    /\ UNCHANGED <<limiter_vars, turns, invoke, stream, conv>>

\* a tool round, then the next iteration of range(max_iterations), or the
\* capped-loop message when the range is used up
AgentTools ==
    /\ agent.pc = "tools"
    /\ \E raises \in [DOMAIN agent.tool_calls -> BOOLEAN] :
          agent' = IF agent.iteration + 1 < max_iterations
                   THEN [ToolRound(agent, raises) EXCEPT
                           !.pc = "invoke", !.attempt = 0, !.sleeps = <<>>]
                   ELSE AgentReturn(ToolRound(agent, raises), "capped")
    /\ UNCHANGED <<limiter_vars, turns, invoke, stream, conv>>

(***************************************************************************)
(* provider.py: stream_chat_response                                       *)
(***************************************************************************)
MaxChunks == 2   \* chunks the model stub emits in one attempt at most

\* chunk.content values of the stub; the empty one is not yielded
ChunkTexts == {"", "a", "b"}

S_api_key == <<"a", "p", "i", " ", "k", "e", "y">>
S_unauthorized == <<"u", "n", "a", "u", "t", "h", "o", "r", "i", "z", "e", "d">>
S_quota == <<"q", "u", "o", "t", "a">>
S_rate == <<"r", "a", "t", "e">>
S_connection == <<"c", "o", "n", "n", "e", "c", "t", "i", "o", "n">>
S_timeout == <<"t", "i", "m", "e", "o", "u", "t">>

\* provider._format_error: the user-facing message for an exception
_format_error(exc) ==
    LET error_str == lower(exc.msg)
    IN  IF contains(error_str, S_api_key) \/ contains(error_str, S_unauthorized)
        THEN <<"error_api_key">>
        ELSE IF contains(error_str, S_quota) \/ contains(error_str, S_rate)
        THEN <<"error_provider_rate_limit">>
        ELSE IF contains(error_str, S_connection) \/ contains(error_str, S_timeout)
        THEN <<"error_connection">>
        ELSE <<"error_generic", exc.msg>>

IdleStream ==
    [pc |-> "idle", user_id |-> None, attempt |-> 0,
     backoff |-> INITIAL_BACKOFF_S, last_exc |-> NoException,
     yielded |-> <<>>, current |-> <<>>, emitted |-> 0, sleeps |-> <<>>,
     outcome |-> "none"]

\* stream_chat_response up to the retry loop: rate limit guard, build_llm
StartStream(user_id) ==
    LET chk == check_rate_limit(user_id)
        st == [IdleStream EXCEPT !.user_id = user_id]
    IN  /\ stream.pc = "idle"
        /\ user_buckets' = chk.user_buckets
        /\ global_bucket' = chk.global_bucket
        /\ \E built \in BOOLEAN :
              stream' =
                 IF chk.tier # "ok"
                 THEN [st EXCEPT !.pc = "done", !.outcome = "rate_limited",
                          !.yielded = <<RateLimitExceeded(chk.tier).message>>]
                 ELSE IF ~built
                 THEN [st EXCEPT !.pc = "done", !.outcome = "build_error",
                          !.yielded = <<"build_error">>]
                 ELSE [st EXCEPT !.pc = "streaming"]
        /\ UNCHANGED <<now, cleanup_counter, recent, global_recent, calls_recorded,
                       turns, invoke, agent, conv>>

\* llm.astream delivers a chunk; its text, if any, is yielded to the consumer
StreamChunk ==
    /\ stream.pc = "streaming"
    /\ stream.emitted < MaxChunks
    /\ \E text \in ChunkTexts :
          stream' = IF text # ""
                    THEN [stream EXCEPT !.emitted = @ + 1,
                                        !.yielded = Append(@, text),
                                        !.current = Append(@, text)]
                    ELSE [stream EXCEPT !.emitted = @ + 1]
    /\ UNCHANGED <<limiter_vars, turns, invoke, agent, conv>>

\* llm.astream is exhausted: record_call and return
StreamEnd ==
    /\ stream.pc = "streaming"
    /\ DoRecordCall(stream.user_id)
    /\ stream' = [stream EXCEPT !.pc = "done", !.outcome = "success"]
    /\ UNCHANGED <<now, turns, invoke, agent, conv>>

\* llm.astream raises: retry after a sleep, or yield the formatted error
StreamFail ==
    /\ stream.pc = "streaming"
    /\ \E exc \in Exceptions :
          stream' =
             IF stream.attempt < MAX_RETRIES /\ _is_retryable(exc)
             THEN [stream EXCEPT !.pc = "sleep", !.last_exc = exc]
             ELSE [stream EXCEPT !.pc = "done", !.outcome = "error",
                                 !.last_exc = exc,
                                 !.yielded = Append(@, _format_error(exc))]
    /\ UNCHANGED <<limiter_vars, turns, invoke, agent, conv>>

\* await asyncio.sleep(backoff); backoff *= BACKOFF_MULTIPLIER; next attempt
StreamSleep ==
    /\ stream.pc = "sleep"
    /\ stream' = [stream EXCEPT !.pc = "streaming", !.attempt = @ + 1,
                     !.sleeps = Append(@, stream.backoff),
                     !.backoff = @ * BACKOFF_MULTIPLIER,
                     !.current = <<>>, !.emitted = 0]
    /\ UNCHANGED <<limiter_vars, turns, invoke, agent, conv>>

(***************************************************************************)
(* router_agent.py: route_message over the turns of one conversation, with *)
(* the state side effects of run_flight_agent and the persistence done by  *)
(* chat_service.send_message / send_message_stream                         *)
(***************************************************************************)
MaxConvTurns == 2    \* turns of the conversation
MaxFlightTools == 2  \* state-changing tool calls of one Flight agent run

MaxIndex == 3        \* largest offer_index a classification extracts

\* slots of a trip and of a booking, and the slots book_flight resolves by
TripSlotKeys == {"origin", "destination", "depart_date", "booking_id"}
BookSlotKeys == {"offer_id", "flight_number", "offer_index"}
SlotKeys == TripSlotKeys \cup BookSlotKeys
SlotValues == {"x", "y"}
Absent == "absent"   \* the key is not in the extracted slots
Null == "null"       \* the key is extracted with the value null

\* the extracted slots of one classification: nothing, or one key
NoSlots == [k \in SlotKeys |-> Absent]

Extractions ==
    {NoSlots} \cup {[NoSlots EXCEPT ![k] = v] :
                      k \in TripSlotKeys, v \in {Null} \cup SlotValues}

\* offer_index is a JSON number, written here as its decimal string
IndexValues == {ToString(n) : n \in 0..MaxIndex}

\* int(offer_index)
int(v) == CHOOSE n \in 0..MaxIndex : ToString(n) = v

\* Python truth value of a slot value: None, 0 and "" are false
Truthy(v) == v \notin {None, "0", ""}

\* the slots a booking request extracts: an offer id, a flight number or an
\* offer index, or nothing
BookExtractions ==
    {NoSlots, [NoSlots EXCEPT !["offer_id"] = "o9"],
     [NoSlots EXCEPT !["flight_number"] = "VJ1"]}
       \cup {[NoSlots EXCEPT !["offer_index"] = i] : i \in IndexValues}

RouteIntents == {"flight_search", "book_flight", "cancel_booking",
                 "add_to_calendar", "greeting", "general_question"}

MissingLists == {<<>>, <<"booking_id", "origin">>}
FollowUps == {None, "follow_up_question"}

\* the dict _detect_intent returns (its fallback is the general_question
\* result with no slots, no missing slots and no follow-up question)
IntentResults(intents, extractions, missing, follow_ups) ==
    [intent : intents, slots : extractions, missing_slots : missing,
     follow_up_question : follow_ups]

\* what the classification model call gives when it is not a JSON object
\* with the expected fields: text json.loads rejects, an exception of
\* ainvoke, or valid JSON that is a list, a string or a number
ClassifierOutputs ==
    {"unparseable", "model_error", "json_list", "json_string", "json_number"}

\* the dict the except clause of _detect_intent returns
FallbackResult ==
    [intent |-> "general_question", slots |-> NoSlots,
     missing_slots |-> <<>>, follow_up_question |-> None]

NoResult ==
    [intent |-> None, slots |-> NoSlots, missing_slots |-> <<>>,
     follow_up_question |-> None]

OfferLists == {<<>>, <<"o1">>, <<"o2", "o1">>}
BookingIds == {"b1", "b2"}

\* what the search_flights tool returns: a JSON object with the offers (each
\* with its offer_id), or an error object / an exception
SearchOutcomes ==
    {[ok |-> FALSE, offer_ids |-> <<>>]}
       \cup {[ok |-> TRUE, offer_ids |-> ids] : ids \in OfferLists}

\* what the create_booking tool returns: success with the booking id, or an
\* error object / an exception
BookOutcomes ==
    {[success |-> FALSE, booking_id |-> None]}
       \cup {[success |-> TRUE, booking_id |-> b] : b \in BookingIds}

\* the agent's final text, by what the router's regular expressions find in
\* it: "offer_id": "..." occurrences and a "booking_id": "<uuid>" occurrence
ResponseTexts ==
    [kind : {"agent_text"}, offer_ids : {<<>>, <<"o1">>},
     booking_id : {None} \cup BookingIds]

PlainText(kind) == [kind |-> kind, offer_ids |-> <<>>, booking_id |-> None]

\* a task description, by what it tells the sub-agent to do and the offer
\* id or booking id it names
Task(kind, id) == [kind |-> kind, id |-> id]

NoTask == Task("none", None)

\* _build_flight_task(intent, state.get("slots", {}), state)
_build_flight_task(intent, slots, state) ==
    IF intent = "flight_search" THEN Task("search", None)
    ELSE IF intent = "book_flight"
    THEN LET offer_id_manual == slots["offer_id"]
             offer_index == slots["offer_index"]
             flight_number == slots["flight_number"]
             last_offers == state.last_offer_ids
         IN  IF Truthy(offer_id_manual) THEN Task("book_offer", offer_id_manual)
             ELSE IF Truthy(flight_number) THEN Task("book_flight_number", None)
             ELSE IF Truthy(offer_index) /\ last_offers # <<>>
             THEN LET idx == int(offer_index) - 1
                  IN  IF 0 <= idx /\ idx < Len(last_offers)
                      THEN Task("book_offer", last_offers[idx + 1])
                      ELSE Task("index_out_of_range", None)
             ELSE Task("no_search_results", None)
    ELSE IF intent = "cancel_booking" THEN Task("cancel", slots["booking_id"])
    ELSE Task("other", None)

\* _build_assistant_task(intent, state.get("slots", {}))
_build_assistant_task(intent, slots) ==
    IF intent \in {"add_to_calendar", "send_email"}
    THEN Task(intent, slots["booking_id"])
    ELSE Task("other", None)

\* conversation.state: a dict; has_slots tells whether it has the key "slots"
EmptyConvState ==
    [current_intent |-> None, has_slots |-> FALSE,
     slots |-> [k \in SlotKeys |-> None], pending_slots |-> <<>>,
     last_offer_ids |-> <<>>, last_booking_id |-> None,
     _attachments |-> <<>>, _suggested_actions |-> <<>>]

\* state.pop("_attachments", None); state.pop("_suggested_actions", None)
PopTransient(state) ==
    [state EXCEPT !._attachments = <<>>, !._suggested_actions = <<>>]

IdleConv ==
    [pc |-> "idle", turn |-> 0, mode |-> "batch", raw |-> "none",
     persisted |-> EmptyConvState, state |-> EmptyConvState,
     result |-> NoResult, outcome |-> "none", agent |-> "none",
     response |-> PlainText("none"), task |-> NoTask, tool_calls |-> 0,
     booked |-> None, popped |-> FALSE,
     searched |-> FALSE, search_ids |-> <<>>,
     extracted |-> [k \in SlotKeys |-> None],
     filled |-> [k \in SlotKeys |-> None]]

\* variant: every extracted key is merged, null values included
MergeSlots_NullOverwrites(state, slots) ==
    IF \E k \in SlotKeys : slots[k] # Absent
    THEN [state EXCEPT !.has_slots = TRUE,
            !.slots = [k \in SlotKeys |->
                         IF slots[k] = Null THEN None
                         ELSE IF slots[k] # Absent THEN slots[k]
                         ELSE @[k]]]
    ELSE state

\* state["slots"] = {**state.get("slots", {}), **{k: v ... if v is not None}}
\* under `if slots:`
MergeSlots(state, slots) ==
    IF \E k \in SlotKeys : slots[k] # Absent
    THEN [state EXCEPT !.has_slots = TRUE,
            !.slots = [k \in SlotKeys |->
                         IF slots[k] \notin {Absent, Null} THEN slots[k]
                         ELSE @[k]]]
    ELSE state

\* the auto-fill branch is taken
AutoFills(state, r) ==
    /\ r.intent \in {"add_to_calendar", "send_email"}
    /\ r.slots["booking_id"] \in {Absent, Null}
    /\ state.last_booking_id # None

\* missing_slots.remove("booking_id") under `if "booking_id" in missing_slots`
RemoveSlot(missing, key) == SelectSeq(missing, LAMBDA m : m # key)

\* route_message from its first line to the delegation: the state, how the
\* call goes on, and the agent it delegates to
RouteHead(state0, r) ==
    LET s1 == MergeSlots([state0 EXCEPT !.current_intent = r.intent], r.slots)
        fills == AutoFills(s1, r)
        s2 == IF fills
              THEN [s1 EXCEPT !.slots["booking_id"] = s1.last_booking_id]
              ELSE s1
        missing == IF fills THEN RemoveSlot(r.missing_slots, "booking_id")
                   ELSE r.missing_slots
    IN  IF fills /\ ~s1.has_slots
        THEN \* state["slots"]["booking_id"] = ... without a "slots" key
             [state |-> s1, outcome |-> "raised", agent |-> "none",
              task |-> NoTask, response |-> PlainText("pipeline_error")]
        ELSE IF missing # <<>> /\ r.follow_up_question # None
        THEN [state |-> [s2 EXCEPT !.pending_slots = missing],
              outcome |-> "follow_up", agent |-> "none", task |-> NoTask,
              response |-> PlainText(r.follow_up_question)]
        ELSE IF r.intent \in FLIGHT_INTENTS
        THEN [state |-> s2, outcome |-> "delegating", agent |-> "flight",
              task |-> _build_flight_task(r.intent, s2.slots, s2),
              response |-> PlainText("none")]
        ELSE IF r.intent \in ASSISTANT_INTENTS
        THEN [state |-> s2, outcome |-> "delegating", agent |-> "assistant",
              task |-> _build_assistant_task(r.intent, s2.slots),
              response |-> PlainText("none")]
        ELSE IF r.intent = "general_question"
        THEN [state |-> s2, outcome |-> "delegating", agent |-> "assistant",
              task |-> Task("general_question", None),
              response |-> PlainText("none")]
        ELSE [state |-> s2, outcome |-> "greeting", agent |-> "none",
              task |-> NoTask, response |-> PlainText("greeting")]

\* ghost: per key, the most recent non-null value extracted so far
Extracted(old, slots) ==
    [k \in SlotKeys |-> IF slots[k] \notin {Absent, Null} THEN slots[k]
                        ELSE old[k]]

others_conv == <<limiter_vars, turns, invoke, agent, stream>>

\* A turn begins and ends in the pipeline's rate-limit rejection or model
\* build failure (gate): route_message is not called.
GateFails(mode, gate) ==
    /\ conv.pc = "idle"
    /\ conv.turn < MaxConvTurns
    /\ conv' = [conv EXCEPT !.pc = "finish", !.turn = @ + 1, !.mode = mode,
                            !.state = conv.persisted, !.popped = FALSE,
                            !.outcome = gate, !.response = PlainText(gate)]
    /\ UNCHANGED others_conv

\* A turn begins: chat_service copies conversation.state, the pipeline
\* passes its rate-limit check and model build, _detect_intent answers with
\* result, and route_message runs up to its follow-up return or to the call
\* of a sub-agent.
BeginConvTurn(mode, result) ==
    /\ conv.pc = "idle"
    /\ conv.turn < MaxConvTurns
    /\ LET h == RouteHead(conv.persisted, result)
           e == Extracted(conv.extracted, result.slots)
           f == IF h.outcome # "raised" /\ AutoFills(h.state, result)
                THEN [Extracted(conv.filled, result.slots) EXCEPT
                        !["booking_id"] = conv.persisted.last_booking_id]
                ELSE Extracted(conv.filled, result.slots)
       IN  conv' = [conv EXCEPT
                      !.pc = IF h.outcome = "delegating" THEN "agent"
                             ELSE "finish",
                      !.turn = @ + 1, !.mode = mode, !.popped = FALSE,
                      !.raw = "object",
                      !.result = result, !.state = h.state,
                      !.outcome = h.outcome, !.agent = h.agent,
                      !.response = h.response, !.task = h.task,
                      !.extracted = e, !.filled = f]
    /\ UNCHANGED others_conv

\* A turn begins and the classification model call gives output, which is
\* not a JSON object. json.loads raising and ainvoke raising are caught in
\* _detect_intent, which returns its fallback dict; a list, string or number
\* is returned as it is, and intent_result.get in route_message raises
\* AttributeError before any change of the state.
ClassifyFails(mode, output) ==
    /\ conv.pc = "idle"
    /\ conv.turn < MaxConvTurns
    /\ IF output \in {"unparseable", "model_error"}
       THEN LET h == RouteHead(conv.persisted, FallbackResult)
            IN  conv' = [conv EXCEPT
                           !.pc = IF h.outcome = "delegating" THEN "agent"
                                  ELSE "finish",
                           !.turn = @ + 1, !.mode = mode, !.popped = FALSE,
                           !.raw = output,
                           !.result = FallbackResult, !.state = h.state,
                           !.outcome = h.outcome, !.agent = h.agent,
                           !.response = h.response, !.task = h.task]
       ELSE conv' = [conv EXCEPT
                       !.pc = "finish", !.turn = @ + 1, !.mode = mode,
                       !.popped = FALSE, !.raw = output,
                       !.state = conv.persisted, !.outcome = "raised",
                       !.response = PlainText("pipeline_error")]
    /\ UNCHANGED others_conv

\* run_flight_agent, a search_flights tool call and its side effect on state
FlightSearchTool(res) ==
    /\ conv.pc = "agent" /\ conv.agent = "flight"
    /\ conv.tool_calls < MaxFlightTools
    /\ conv' = [conv EXCEPT
          !.tool_calls = @ + 1,
          !.state = IF res.ok /\ res.offer_ids # <<>>
                    THEN [@ EXCEPT !.last_offer_ids = res.offer_ids,
                             !._attachments = <<"flight_offers", res.offer_ids>>]
                    ELSE @,
          !.searched = @ \/ res.ok,
          !.search_ids = IF res.ok THEN res.offer_ids ELSE @]
    /\ UNCHANGED others_conv

\* run_flight_agent, a create_booking tool call and its side effect on state
FlightBookTool(res) ==
    /\ conv.pc = "agent" /\ conv.agent = "flight"
    /\ conv.tool_calls < MaxFlightTools
    /\ conv' = [conv EXCEPT
          !.tool_calls = @ + 1,
          !.state = IF res.success
                    THEN [@ EXCEPT
                            !._attachments = <<"booking_success", res.booking_id>>,
                            !._suggested_actions = <<"calendar", res.booking_id>>]
                    ELSE @,
          !.booked = IF res.success THEN res.booking_id ELSE @]
    /\ UNCHANGED others_conv

\* _extract_offer_ids / _extract_booking_id on the agent's response text
PostProcess(state, intent, text) ==
    IF intent = "flight_search" /\ text.offer_ids # <<>>
    THEN [state EXCEPT !.last_offer_ids = text.offer_ids]
    ELSE IF intent = "book_flight" /\ text.booking_id # None
    THEN [state EXCEPT !.last_booking_id = text.booking_id]
    ELSE state

\* the sub-agent returns its text (final answer, error text or capped-loop
\* text) and route_message post-processes it and returns
AgentFinal(text) ==
    /\ conv.pc = "agent"
    /\ conv' = [conv EXCEPT
          !.pc = "finish", !.outcome = "delegated", !.response = text,
          !.state = IF conv.agent = "flight"
                    THEN PostProcess(@, conv.result.intent, text) ELSE @]
    /\ UNCHANGED others_conv

\* llm.bind_tools raises at the sub-agent's first line: route_message raises
\* and the pipeline's except clause answers
AgentRaises ==
    /\ conv.pc = "agent" /\ conv.tool_calls = 0
    /\ conv' = [conv EXCEPT !.pc = "finish", !.outcome = "raised",
                            !.response = PlainText("pipeline_error")]
    /\ UNCHANGED others_conv

\* variant: the state is persisted as the pipeline left it
PersistedState_NoPop(c) == c.state

\* the state chat_service persists: send_message pops the transient keys
\* from what the pipeline returned; stream_agent_pipeline pops them before
\* its done event, and without a done event send_message_stream keeps
\* conv_state as it is
PersistedState(c) ==
    IF c.mode = "batch" \/ c.outcome \in {"follow_up", "delegated", "greeting"}
    THEN PopTransient(c.state)
    ELSE c.state

\* the turn ends: conversation.state = updated_state; commit
FinishConvTurn ==
    /\ conv.pc = "finish"
    /\ conv' = [IdleConv EXCEPT
          !.turn = conv.turn,
          !.persisted = PersistedState(conv),
          !.popped = (PersistedState(conv) # conv.state),
          !.searched = conv.searched, !.search_ids = conv.search_ids,
          !.extracted = conv.extracted, !.filled = conv.filled]
    /\ UNCHANGED others_conv

(***************************************************************************)
(* A whole turn: route_message and the tool-call loop it awaits            *)
(***************************************************************************)
\* route_message awaits run_flight_agent or run_assistant_agent
AwaitAgent ==
    /\ conv.pc = "agent"
    /\ StartAgent(conv.agent)

\* llm.bind_tools raises before the loop starts
AwaitAgentRaises ==
    /\ agent.pc = "idle"
    /\ AgentRaises

\* the awaited agent returned its text: route_message post-processes it and
\* returns
AwaitAgentReturns(text) ==
    /\ conv.pc = "agent"
    /\ agent.pc = "returned"
    /\ conv' = [conv EXCEPT
          !.pc = "finish", !.outcome = "delegated", !.response = text,
          !.state = IF conv.agent = "flight"
                    THEN PostProcess(@, conv.result.intent, text) ELSE @]
    /\ agent' = IdleAgent
    /\ UNCHANGED <<limiter_vars, turns, invoke, stream>>

\* the model stub of a whole turn: it answers with text, asks for one tool,
\* or raises an error the assistant retries or one it does not
TurnCalls == {<<[id |-> "call_1", name |-> "get_passengers"]>>}

TurnErrors ==
    {CHOOSE exc \in Exceptions : assistant_is_retryable(exc),
     CHOOSE exc \in Exceptions : ~assistant_is_retryable(exc)}

TurnStub ==
    /\ agent'.pc = "tools" => agent'.tool_calls \in TurnCalls
    /\ agent'.last_exc \in {NoException} \cup TurnErrors

\* the steps of a turn that is under way; each is a model call, a tool
\* round or a sleep that returns or raises, or code between two awaits
TurnProgress ==
    \/ AwaitAgent
    \/ AwaitAgentRaises
    \/ (FlightInvoke /\ TurnStub)
    \/ (AssistantInvoke /\ TurnStub)
    \/ AssistantSleep
    \/ AgentTools
    \/ \E text \in {t \in ResponseTexts :
                      t.offer_ids = <<>> /\ t.booking_id = None} :
          AwaitAgentReturns(text)
    \/ FinishConvTurn

(***************************************************************************)
(* Specifications                                                          *)
(***************************************************************************)
InitLimiter ==
    /\ now = 0
    /\ user_buckets = [k \in Keys |-> <<>>]
    /\ global_bucket = <<>>
    /\ cleanup_counter = 0
    /\ recent = [k \in Keys |-> <<>>]
    /\ global_recent = <<>>
    /\ calls_recorded = [k \in Keys |-> 0]

Init ==
    /\ InitLimiter
    /\ turns = [t \in Turns |-> IdleTurn]
    /\ invoke = IdleInvoke
    /\ agent = IdleAgent
    /\ stream = IdleStream
    /\ conv = IdleConv

TickClock == Tick(TickStep, MaxTime)

\* the steps of a turn after its rate limit check
TurnStep(t) ==
    \/ BuildAgentLLMs(t)
    \/ DetectIntent(t)
    \/ Delegate(t)
    \/ FinishTurn(t)

\* Turns arrive one after the other, from either identity, on either entry
\* point, while the clock advances.
Next ==
    \/ /\ cleanup_counter < MaxCalls
       /\ \E u \in UserIds, m \in Modes, s \in InitialStates :
             BeginTurn("t1", u, m, s)
    \/ TurnStep("t1")
    \/ TickClock

Spec == Init /\ [][Next]_vars

\* Turns of either identity on either entry point, one after the other
\* within one minute, against every outcome of the model build, the
\* classification and the delegation.
NextPipeline ==
    \/ /\ cleanup_counter < MaxCalls
       /\ \E u \in UserIds, m \in Modes, s \in InitialStates :
             BeginTurn("t1", u, m, s)
    \/ TurnStep("t1")

SpecPipeline == Init /\ [][NextPipeline]_vars

\* Two turns run concurrently, check_rate_limit taken step by step.
NextLocks ==
    \/ /\ cleanup_counter < MaxCalls
       /\ \E t \in Turns, u \in UserIds :
             Scheduled(t) /\ AcquireUserLock(t, u, "batch", EmptyState)
    \/ \E t \in Turns : Scheduled(t) /\ UserCriticalSection(t)
    \/ \E t \in Turns : Scheduled(t) /\ AcquireGlobalLock(t)
    \/ \E t \in Turns : Scheduled(t) /\ GlobalCriticalSection(t)
    \/ \E t \in Turns : Scheduled(t) /\ TurnStep(t)

SpecLocks == Init /\ [][NextLocks]_vars

\* Two turns of the same identity run concurrently within one minute.
NextRace ==
    \/ \E t \in Turns : BeginTurn(t, "u1", "batch", EmptyState)
    \/ \E t \in Turns : TurnStep(t)

SpecRace == Init /\ [][NextRace]_vars

\* One tracked identity among many untracked ones; the clock advances by
\* whole windows.
TickMinute == Tick(WINDOW_MINUTE, MaxTimeGlobal)

NextGlobal ==
    \/ /\ cleanup_counter < MaxCallsGlobal
       /\ BeginTurn("t1", "u1", "batch", EmptyState)
    \/ TurnStep("t1")
    \/ (cleanup_counter < MaxCallsGlobal /\ OtherIdentityTurn)
    \/ TickMinute

SpecGlobal == Init /\ [][NextGlobal]_vars

\* One identity over a long horizon (still shorter than WINDOW_HOUR).
TickHour == Tick(WINDOW_MINUTE, MaxTimeHour)

NextHour ==
    \/ BeginTurn("t1", "u1", "batch", EmptyState)
    \/ TurnStep("t1")
    \/ TickHour

SpecHour == Init /\ [][NextHour]_vars

\* One call of _invoke_with_retry against every scripted model stub.
NextRetry ==
    \/ \E script \in Scripts, mr \in 0..MAX_RETRIES : StartInvoke(script, mr)
    \/ InvokeAttempt
    \/ InvokeSleep

SpecRetry == Init /\ [][NextRetry]_vars

\* One run of a sub-agent's tool-call loop against every model behaviour.
NextAgent ==
    \/ \E name \in AgentNames : StartAgent(name)
    \/ FlightInvoke
    \/ AssistantInvoke
    \/ AssistantSleep
    \/ AgentTools

SpecAgent == Init /\ [][NextAgent]_vars

\* One run of a sub-agent's tool-call loop, its message list kept.
NextProtocol ==
    \/ \E name \in AgentNames : StartAgentKeeping(name)
    \/ (FlightInvoke /\ (agent'.pc = "tools" => agent'.tool_calls \in ProtocolCalls))
    \/ (AssistantInvoke /\ (agent'.pc = "tools" => agent'.tool_calls \in ProtocolCalls))
    \/ AssistantSleep
    \/ AgentTools

SpecProtocol == Init /\ [][NextProtocol]_vars

\* One call of stream_chat_response against every streaming model behaviour.
NextStream ==
    \/ \E u \in UserIds : StartStream(u)
    \/ StreamChunk
    \/ StreamEnd
    \/ StreamFail
    \/ StreamSleep

SpecStream == Init /\ [][NextStream]_vars

\* A conversation whose classifications extract slots and ask follow-up
\* questions; the sub-agents answer without state-changing tool calls.
SlotIntents == {"flight_search", "book_flight", "cancel_booking",
                "add_to_calendar", "greeting"}

NextSlots ==
    \/ \E gate \in {"rate_limited", "build_error"} : GateFails("batch", gate)
    \/ \E result \in IntentResults(SlotIntents, Extractions,
                                   MissingLists, FollowUps) :
          BeginConvTurn("batch", result)
    \/ \E text \in {t \in ResponseTexts :
                      t.offer_ids = <<>> /\ t.booking_id # "b2"} :
          AgentFinal(text)
    \/ AgentRaises
    \/ FinishConvTurn

SpecSlots == Init /\ [][NextSlots]_vars

\* A conversation of searches and bookings: the Flight agent runs tools.
NextFlight ==
    \/ \E mode \in Modes, gate \in {"rate_limited", "build_error"} :
          GateFails(mode, gate)
    \/ \E mode \in Modes,
          result \in IntentResults({"flight_search", "book_flight"}, {NoSlots},
                                   {<<>>}, {None}) :
          BeginConvTurn(mode, result)
    \/ \E res \in SearchOutcomes : FlightSearchTool(res)
    \/ \E res \in BookOutcomes : FlightBookTool(res)
    \/ \E text \in ResponseTexts : AgentFinal(text)
    \/ AgentRaises
    \/ FinishConvTurn

SpecFlight == Init /\ [][NextFlight]_vars

\* A conversation of searches and of bookings by offer id, flight number or
\* offer index.
NextBook ==
    \/ \E result \in IntentResults({"flight_search", "book_flight"},
                                   BookExtractions, {<<>>}, {None}) :
          BeginConvTurn("batch", result)
    \/ \E res \in SearchOutcomes : FlightSearchTool(res)
    \/ \E text \in {t \in ResponseTexts :
                      t.offer_ids = <<>> /\ t.booking_id = None} :
          AgentFinal(text)
    \/ FinishConvTurn

SpecBook == Init /\ [][NextBook]_vars

\* Whole turns, each from the classification to the persisted answer.  A
\* new turn begins when the user sends a message, which nothing forces; a
\* turn under way goes on, since each model call, tool call and sleep
\* returns or raises.
NextTurn ==
    \/ ClassifyFails("batch", "model_error")
    \/ \E result \in IntentResults({"flight_search", "view_booking"},
                                    {NoSlots}, {<<>>}, {None}) :
          BeginConvTurn("batch", result)
    \/ TurnProgress

SpecTurn == Init /\ [][NextTurn]_vars /\ WF_vars(TurnProgress)

\* A conversation of small talk in which the classification model call may
\* give anything.
NextClassify ==
    \/ \E mode \in Modes, output \in ClassifierOutputs :
          ClassifyFails(mode, output)
    \/ \E mode \in Modes,
          result \in IntentResults({"general_question", "greeting"},
                                   {NoSlots}, {<<>>}, {None}) :
          BeginConvTurn(mode, result)
    \/ \E text \in {t \in ResponseTexts :
                      t.offer_ids = <<>> /\ t.booking_id = None} :
          AgentFinal(text)
    \/ AgentRaises
    \/ FinishConvTurn

SpecClassify == Init /\ [][NextClassify]_vars

(***************************************************************************)
(* Properties of the rate limiter and of the pipeline's use of it          *)
(***************************************************************************)
\* number of record_call's of the list that are less than 60 s old
WithinMinute(times) == Len(SelectSeq(times, LAMBDA ts : ts > now - WINDOW_MINUTE))

\* the step in which turn t runs check_rate_limit
Checks(t) == turns[t].pc = "idle" /\ turns'[t].pc # "idle"

KeyOf(t) == _get_key(turns'[t].user_id)

\* C1: an identity with MAX_REQUESTS_PER_MINUTE or more calls recorded within
\* the trailing 60 s is rejected by check_rate_limit with the per-minute
\* rejection; an identity all of whose recorded calls are older than 60 s
\* passes the check again when the global bucket is under its limit.
C1_PerMinuteTier ==
    [][\A t \in Turns : Checks(t) =>
          /\ WithinMinute(recent[KeyOf(t)]) >= MAX_REQUESTS_PER_MINUTE
                => turns'[t].check = "minute"
          /\ (recent[KeyOf(t)] = <<>>
              /\ WithinMinute(global_recent) < GLOBAL_MAX_REQUESTS_PER_MINUTE)
                => turns'[t].check = "ok"]_vars

\* a check passes for an identity that has MAX_REQUESTS_PER_MINUTE recorded
\* calls, all of them expired
C1_Witness ==
    \E t \in Turns :
        /\ turns[t].pc = "build" /\ turns[t].check = "ok"
        /\ calls_recorded[_get_key(turns[t].user_id)] >= MAX_REQUESTS_PER_MINUTE
        /\ recent[_get_key(turns[t].user_id)] = <<>>
        /\ user_buckets[_get_key(turns[t].user_id)] = <<>>

\* C2: an identity with MAX_REQUESTS_PER_HOUR calls recorded within the
\* trailing 3600 s, fewer than MAX_REQUESTS_PER_MINUTE of them within the
\* trailing 60 s, is rejected with the per-hour rejection.  (The clock of
\* SpecHour stays below WINDOW_HOUR, so every recorded call is within the
\* trailing hour.)
C2_PerHourTier ==
    [][\A t \in Turns : Checks(t) =>
          ((now < WINDOW_HOUR
            /\ calls_recorded[KeyOf(t)] >= MAX_REQUESTS_PER_HOUR
            /\ WithinMinute(recent[KeyOf(t)]) < MAX_REQUESTS_PER_MINUTE)
                => turns'[t].check = "hour")]_vars

C4_BucketsWithinLimits ==
    /\ \A k \in Keys :
          count_in_window(user_buckets[k], WINDOW_MINUTE) <= MAX_REQUESTS_PER_MINUTE
    /\ count_in_window(global_bucket, WINDOW_MINUTE) <= GLOBAL_MAX_REQUESTS_PER_MINUTE

\* C5: a turn records a call only if one of its model calls succeeded.
C5_RecordOnlyAfterSuccess ==
    \A t \in Turns : turns[t].recorded => turns[t].model_ok

\* C6: a turn rejected by check_rate_limit has ended, with no model built, no
\* model or tool invoked and no call recorded; the batch entry point returned
\* the rejection's message, the state it was given and intent None; the
\* streamed one yielded the rejection's message.
Rejected(t) == turns[t].check \in {"minute", "hour", "day", "global"}

C6_RejectionEndsTurn ==
    \A t \in Turns : Rejected(t) =>
        /\ turns[t].pc = "done"
        /\ ~turns[t].built /\ ~turns[t].model_called
        /\ ~turns[t].tool_called /\ ~turns[t].recorded
        /\ turns[t].mode = "batch" =>
              /\ turns[t].response_text = RateLimitExceeded(turns[t].check).message
              /\ turns[t].state = turns[t].state0
              /\ turns[t].intent = None
        /\ turns[t].mode = "stream" =>
              turns[t].events =
                 <<[type |-> "error",
                    content |-> RateLimitExceeded(turns[t].check).message]>>

\* a batch turn on a conversation with state is rejected
C6_Witness ==
    \E t \in Turns :
        /\ Rejected(t) /\ turns[t].mode = "batch"
        /\ turns[t].state0 # EmptyState

(***************************************************************************)
(* Properties of the retry policy                                          *)
(***************************************************************************)
InvokeFinished == invoke.pc \in {"returned", "raised"}

\* C7: against a model that fails with a transient-keyword error on its first
\* two attempts and succeeds on the third, _invoke_with_retry returns the
\* third attempt's result after sleeping exactly twice, for INITIAL_BACKOFF_S
\* and then INITIAL_BACKOFF_S * BACKOFF_MULTIPLIER.
C7_TwoTransientThenSuccess ==
    (/\ InvokeFinished
     /\ invoke.max_retries = MAX_RETRIES
     /\ invoke.script[1] # NoException /\ TransientKeywordError(invoke.script[1])
     /\ invoke.script[2] # NoException /\ TransientKeywordError(invoke.script[2])
     /\ invoke.script[3] = NoException)
    => /\ invoke.pc = "returned"
       /\ invoke.result = Content(3)
       /\ invoke.sleeps = <<INITIAL_BACKOFF_S,
                            INITIAL_BACKOFF_S * BACKOFF_MULTIPLIER>>

\* C8: _invoke_with_retry makes at most 1 + max_retries attempts; a failure
\* that is not transient ends the call on that attempt, with no sleep after
\* it; whenever the call fails, the exception raised is that of the last
\* attempt made.
C8_BoundedAttemptsLastError ==
    /\ invoke.calls <= 1 + invoke.max_retries
    /\ \A i \in 1..invoke.calls :
          (invoke.script[i] # NoException /\ ~TransientKeywordError(invoke.script[i]))
             => /\ i = invoke.calls
                /\ invoke.pc = "raised"
                /\ Len(invoke.sleeps) = i - 1
    /\ invoke.pc = "raised" => invoke.raised = invoke.script[invoke.calls]
    /\ invoke.pc = "returned" => invoke.script[invoke.calls] = NoException

\* the retries are used up and the third error differs from the first
C8_Witness ==
    /\ invoke.pc = "raised"
    /\ invoke.calls = 1 + MAX_RETRIES
    /\ invoke.script[1] # invoke.script[3]
    /\ invoke.raised = invoke.script[3]

\* C9: in the tool-call loop of either sub-agent a model invocation that
\* fails with a transient error is given up only after 1 + MAX_RETRIES
\* attempts, with sleeps of 1 s and 2 s between them.
C9_LoopRetriesTransient ==
    (/\ agent.pc = "returned" /\ agent.result = "llm_error"
     /\ TransientKeywordError(agent.last_exc))
    => /\ agent.attempt = MAX_RETRIES
       /\ agent.sleeps = <<INITIAL_BACKOFF_S,
                           INITIAL_BACKOFF_S * BACKOFF_MULTIPLIER>>

\* C10: when stream_chat_response succeeds, the consumer has received exactly
\* the chunks of the successful attempt.
C10_FailedAttemptChunksDiscarded ==
    (stream.pc = "done" /\ stream.outcome = "success")
    => stream.yielded = stream.current

(***************************************************************************)
(* Properties of the tool-call loops                                       *)
(***************************************************************************)
\* C11: the loop never obtains more than max_iterations model responses;
\* the capped-loop message is returned after exactly max_iterations
\* responses, each a tool request; and a run in which every response was a
\* tool request and no invocation failed ends with the capped-loop message.
C11_IterationCap ==
    /\ agent.responses <= max_iterations
    /\ agent.result = "capped"
          => agent.responses = max_iterations
             /\ agent.tool_rounds = max_iterations
    /\ (agent.pc = "returned" /\ agent.result # "llm_error"
           /\ agent.responses = agent.tool_rounds)
          => agent.result = "capped" /\ agent.responses = max_iterations

\* the assistant loop returned the capped-loop message
C11_Witness ==
    /\ agent.pc = "returned" /\ agent.result = "capped"
    /\ agent.name = "assistant"
    /\ agent.responses = max_iterations

\* C12: a tool round never raises: every call of the response is answered,
\* in order, by a tool message tagged with the call's id; for a name outside
\* the agent's catalog the message is the not-found text naming the tool and
\* no tool is run for that call, while the calls with known names are run;
\* the loop then goes on to the next model invocation (or to the cap).
C12_UnknownToolFedBack ==
    [][agent.pc = "tools" =>
        LET calls == agent.tool_calls
            catalog == Catalog(agent.name)
        IN  /\ agent'.pc = IF agent.tool_rounds + 1 < max_iterations
                           THEN "invoke" ELSE "returned"
            /\ agent'.result \in {"none", "capped"}
            /\ Len(agent'.tool_messages) = Len(calls)
            /\ \A i \in DOMAIN calls :
                  /\ agent'.tool_messages[i].tool_call_id = calls[i].id
                  /\ calls[i].name \notin catalog =>
                        agent'.tool_messages[i].content
                           = <<"Tool not found", calls[i].name>>
            /\ agent'.invoked =
                  SelectSeq([i \in DOMAIN calls |-> calls[i].name],
                            LAMBDA n : n \in catalog)]_vars

\* a response asked for an unknown tool and then a known one; the round was
\* run and the model is about to be invoked again
C12_Witness ==
    /\ agent.pc = "invoke" /\ agent.name = "flight"
    /\ Len(agent.tool_calls) = 2
    /\ agent.tool_calls[1].name = "book_hotel"
    /\ agent.tool_messages[1] = ToolMessage(<<"Tool not found", "book_hotel">>,
                                            agent.tool_calls[1].id)
    /\ agent.invoked = <<"search_flights">>

(***************************************************************************)
(* Properties of the streamed entry point                                  *)
(***************************************************************************)
\* C16: when a streamed turn has ended, the last event it yielded is a done
\* event carrying the full text, the final state and the detected intent,
\* and no earlier event is a done event.
C16_DoneIsTerminalEvent ==
    \A t \in Turns :
       (turns[t].pc = "done" /\ turns[t].mode = "stream")
          => LET events == turns[t].events
             IN  /\ events # <<>>
                 /\ events[Len(events)].type = "done"
                 /\ events[Len(events)].full_content = turns[t].response_text
                 /\ events[Len(events)].state = turns[t].state
                 /\ events[Len(events)].intent = turns[t].intent
                 /\ \A i \in 1..(Len(events) - 1) : events[i].type # "done"

(***************************************************************************)
(* Properties of the conversation state                                    *)
(***************************************************************************)
\* C13: between turns, once a search_flights call has completed
\* successfully, state.last_offer_ids is exactly the list of offer ids the
\* most recent such search returned (the empty list included).
C13_MostRecentSearchWins ==
    (conv.pc = "idle" /\ conv.searched)
       => conv.persisted.last_offer_ids = conv.search_ids

\* C14: when route_message has returned from a turn in which create_booking
\* succeeded, state.last_booking_id is the id of the booking created and
\* state._suggested_actions is populated.
C14_BookingIdRecorded ==
    (conv.pc = "finish" /\ conv.outcome = "delegated" /\ conv.booked # None)
       => /\ conv.state.last_booking_id = conv.booked
          /\ conv.state._suggested_actions # <<>>

\* C15: the persisted conversation state (which, on the success path of a
\* streamed turn, is the state object the done event carries) never has
\* the key _attachments or _suggested_actions.
C15_TransientKeysNotPersisted ==
    /\ conv.persisted._attachments = <<>>
    /\ conv.persisted._suggested_actions = <<>>

\* a turn whose Flight agent left transient keys in the state has ended
C15_Witness ==
    /\ conv.pc = "idle" /\ conv.popped
    /\ conv.persisted.last_offer_ids # <<>>

\* C17: once a turn is classified with no missing slots and is delegated to
\* a sub-agent, state.pending_slots is empty.
C17_PendingSlotsCleared ==
    (/\ conv.pc \in {"agent", "finish"}
     /\ conv.outcome \in {"delegating", "delegated"}
     /\ conv.result.missing_slots = <<>>)
       => conv.state.pending_slots = <<>>

\* the missing slots the follow-up check sees: booking_id is taken out when
\* the auto-fill rule applies
RemainingMissing ==
    IF /\ conv.result.intent \in {"add_to_calendar", "send_email"}
       /\ conv.result.slots["booking_id"] \in {Absent, Null}
       /\ conv.persisted.last_booking_id # None
    THEN RemoveSlot(conv.result.missing_slots, "booking_id")
    ELSE conv.result.missing_slots

\* C18: when the classification comes with missing slots and a follow-up
\* question, route_message stores the missing slots in state.pending_slots,
\* returns the follow-up question as the response and invokes no sub-agent.
C18_FollowUpReturned ==
    (/\ conv.pc \in {"agent", "finish"}
     /\ RemainingMissing # <<>>
     /\ conv.result.follow_up_question # None)
       => /\ conv.pc = "finish" /\ conv.outcome = "follow_up"
          /\ conv.state.pending_slots = RemainingMissing
          /\ conv.response = PlainText(conv.result.follow_up_question)
          /\ conv.agent = "none" /\ conv.tool_calls = 0

\* REQUIRED_SLOTS of the intents whose slots are modelled
RequiredSlots(intent) ==
    IF intent = "flight_search" THEN {"origin", "destination", "depart_date"}
    ELSE IF intent \in {"cancel_booking", "add_to_calendar"} THEN {"booking_id"}
    ELSE {}

\* C19: a sub-agent runs for an intent only while every required slot of the
\* intent has a value in state.slots.
C19_AgentOnlyWithRequiredSlots ==
    conv.pc = "agent"
       => \A k \in RequiredSlots(conv.result.intent) : conv.state.slots[k] # None

\* C20 as stated: after each turn state.slots holds, for every key, the most
\* recent non-null value extracted for it (or no value).
C20_SlotsAreLatestExtracted ==
    conv.pc = "idle" => conv.persisted.slots = conv.extracted

\* C20 as amended: the same, except that a turn in which the auto-fill rule
\* fires writes state.last_booking_id into slots.booking_id.
C20_SlotsAreLatestExtractedOrFilled ==
    conv.pc = "idle" => conv.persisted.slots = conv.filled

\* two turns: a slot kept through a null extraction, and an auto-fill
C20_Witness ==
    /\ conv.pc = "idle" /\ conv.turn = 2
    /\ conv.persisted.slots = conv.filled
    /\ conv.filled # conv.extracted

(***************************************************************************)
(* Properties of the task route_message hands to a sub-agent               *)
(***************************************************************************)
\* C21: in a turn classified add_to_calendar or send_email with no
\* booking_id extracted, started from a state that has last_booking_id,
\* route_message does not raise before delegating, the delegated task names
\* booking_id = state.last_booking_id, and booking_id is not among the
\* missing slots a follow-up stores.
C21_AutoFillCompletes ==
    (/\ conv.pc \in {"agent", "finish"}
     /\ AutoFills(conv.persisted, conv.result))
       => /\ ~(conv.outcome = "raised" /\ conv.agent = "none")
          /\ conv.outcome \in {"delegating", "delegated"}
                => conv.task.id = conv.persisted.last_booking_id
          /\ conv.outcome = "follow_up"
                => \A i \in DOMAIN conv.state.pending_slots :
                      conv.state.pending_slots[i] # "booking_id"

\* C22: when a turn is classified book_flight with offer_index = N, no offer
\* id and no flight number in that classification, and
\* 1 <= N <= len(last_offer_ids), the Flight agent's task names exactly
\* last_offer_ids[N-1].
C22_BookByIndex ==
    (/\ conv.pc = "agent" /\ conv.result.intent = "book_flight"
     /\ conv.result.slots["offer_index"] \in IndexValues
     /\ int(conv.result.slots["offer_index"])
           \in 1..Len(conv.persisted.last_offer_ids))
       => conv.task = Task("book_offer",
                           conv.persisted.last_offer_ids[
                              int(conv.result.slots["offer_index"])])

\* book_flight is resolved by index: state.slots holds an offer_index and
\* neither an offer id nor a flight number
ResolvedByIndex ==
    /\ conv.pc = "agent" /\ conv.result.intent = "book_flight"
    /\ ~Truthy(conv.state.slots["offer_id"])
    /\ ~Truthy(conv.state.slots["flight_number"])
    /\ conv.state.slots["offer_index"] # None

\* C23: when book_flight is resolved by index and the index is outside
\* 1..len(last_offer_ids), the task says the index is out of range and names
\* no offer; an offer id named by a task resolved by index is an element of
\* last_offer_ids.
C23_IndexOutOfRange ==
    ResolvedByIndex
       => /\ int(conv.state.slots["offer_index"])
                \notin 1..Len(conv.persisted.last_offer_ids)
             => conv.task = Task("index_out_of_range", None)
          /\ conv.task.id # None
             => \E i \in DOMAIN conv.persisted.last_offer_ids :
                   conv.persisted.last_offer_ids[i] = conv.task.id

\* C24: when the classification output is not a JSON object with the
\* expected fields, the turn proceeds as general_question with empty slots,
\* route_message does not raise on it and the response is not an error
\* message caused by the classification output.
C24_ClassificationFallback ==
    (conv.pc \in {"agent", "finish"} /\ conv.raw \in ClassifierOutputs)
       => /\ conv.result = FallbackResult
          /\ conv.state.current_intent = "general_question"
          /\ ~(conv.outcome = "raised" /\ conv.agent = "none")

\* C25: every turn of the pipeline ends with a returned triple whose text
\* is a message (batch) or with yielded events, the last of them a done or
\* an error event (stream): no exception leaves the pipeline.
C25_NoExceptionEscapes ==
    \A t \in Turns :
        turns[t].pc = "done"
           => IF turns[t].mode = "batch"
              THEN turns[t].response_text # None
              ELSE /\ turns[t].events # <<>>
                   /\ turns[t].events[Len(turns[t].events)].type
                         \in {"done", "error"}

\* a turn whose models were built has ended in an exception of
\* route_message, answered by the pipeline's except clause
C25_Witness ==
    /\ turns["t1"].pc = "done" /\ turns["t1"].built
    /\ ~turns["t1"].recorded
    /\ \/ turns["t1"].response_text = "pipeline_error"
       \/ /\ turns["t1"].events # <<>>
          /\ turns["t1"].events[1].type = "error"

\* the message list from position p on starts with a model response that is
\* followed by exactly one tool message per requested call, in request
\* order, each tagged with its call's id
Answered(messages, p) ==
    LET calls == messages[p].tool_calls
    IN  /\ p + Len(calls) <= Len(messages)
        /\ \A i \in DOMAIN calls :
              /\ messages[p + i].role = "tool"
              /\ messages[p + i].tool_call_id = calls[i].id
        /\ p + Len(calls) < Len(messages)
              => messages[p + Len(calls) + 1].role = "ai"

C27_InvocationErrorEndsLoop ==
    [][/\ (/\ agent.pc = "invoke"
           /\ agent'.responses = agent.responses
           /\ agent'.pc # "sleep")
          => /\ agent'.pc = "returned" /\ agent'.result = "llm_error"
             /\ agent'.tool_rounds = agent.tool_rounds
             /\ agent'.invoked = agent.invoked
             /\ agent'.messages = agent.messages
             /\ agent.name = "assistant"
                   => \/ agent.attempt = _MAX_LLM_RETRIES
                      \/ ~assistant_is_retryable(agent'.last_exc)
       /\ agent.pc = "returned" => agent' = agent]_vars

\* the assistant returned its error text after a tool round and two retries
C27_Witness ==
    /\ agent.pc = "returned" /\ agent.result = "llm_error"
    /\ agent.name = "assistant"
    /\ agent.attempt = _MAX_LLM_RETRIES
    /\ agent.tool_rounds = 1

(***************************************************************************)
(* Properties of the limiter's locks                                       *)
(***************************************************************************)
\* C28: while a check_rate_limit is inside the critical section of an
\* identity's bucket, no step of another turn changes that bucket (no
\* record_call appends to it, no garbage collection touches it), and
\* likewise for the global bucket and its critical section; and no check
\* stands before a lock, or inside a critical section, while another check
\* holds a lock.
C28_CheckAndRecordExclusive ==
    [][\A t \in Turns :
         /\ (turns[t].pc = "user_cs" /\ turns'[t] = turns[t])
               => user_buckets'[_get_key(turns[t].user_id)]
                     = user_buckets[_get_key(turns[t].user_id)]
         /\ (turns[t].pc = "global_cs" /\ turns'[t] = turns[t])
               => global_bucket' = global_bucket
         /\ turns[t].pc \in {"user_cs", "global_cs"}
               => \A t2 \in Turns \ {t} :
                     turns[t2].pc \notin {"user_cs", "global_acquire",
                                          "global_cs"}]_vars

\* a check of u1 is inside its user critical section while another turn of
\* u1, which passed its check, is about to end and record its call
C28_Witness ==
    /\ turns["t1"].pc = "user_cs" /\ turns["t1"].user_id = "u1"
    /\ turns["t2"].pc = "delegate" /\ turns["t2"].user_id = "u1"
    /\ calls_recorded["u1"] > 0

(***************************************************************************)
(* The state a failed turn persists                                        *)
(***************************************************************************)
\* C29: a turn in which route_message raised and the pipeline answered with
\* its error text persists the state the turn started with: current_intent,
\* slots and pending_slots carry nothing of the failed turn.
C29_ErrorTurnKeepsState ==
    (conv.pc = "finish" /\ conv.outcome = "raised")
       => PersistedState(conv) = conv.persisted

(***************************************************************************)
(* Termination of a turn                                                   *)
(***************************************************************************)
\* C30: every turn that delegated reaches its final response (the agent's
\* text, the capped-loop message or a formatted error) with no outside
\* signal, and on the way the loop takes at most max_iterations model
\* responses, each after at most _MAX_LLM_RETRIES + 1 attempts and at most
\* _MAX_LLM_RETRIES sleeps.
C30_TurnTerminates ==
    /\ [](/\ agent.responses <= max_iterations
          /\ agent.iteration <= max_iterations
          /\ agent.attempt <= _MAX_LLM_RETRIES
          /\ Len(agent.sleeps) <= _MAX_LLM_RETRIES)
    /\ (conv.pc = "agent") ~> (conv.pc = "finish")
    /\ (conv.pc = "finish") ~> (conv.pc = "idle")

\* the assistant's loop in its last iteration, on its third attempt after two
\* sleeps, in a turn that is still under way
C30_Witness ==
    /\ conv.pc = "agent" /\ agent.name = "assistant"
    /\ agent.pc = "invoke"
    /\ agent.iteration = max_iterations - 1
    /\ agent.attempt = _MAX_LLM_RETRIES
    /\ Len(agent.sleeps) = _MAX_LLM_RETRIES

====
